---- MODULE Spec2Model ----
(***************************************************************************)
(* Model of the noir signaling worker (pkg/noir/worker.go): the Worker's   *)
(* command dispatch (HandleNext / Handle / HandleJoin), the per-connection *)
(* PeerChannel loop and the engine hooks registered by HandleJoin.         *)
(*                                                                         *)
(* Collaborators that live outside worker.go (Queue, Manager, the sfu      *)
(* Peer, UnmarshalRequest) are modelled by their contract: a queue is a    *)
(* FIFO sequence, a Manager or engine call that returns an error is a      *)
(* nondeterministic choice, and every call made on them is recorded.       *)
(*                                                                         *)
(* Strings of the program are modelled as follows: an action string is the *)
(* sequence of its dot-separated segments; a requestId is a natural        *)
(* number, 0 standing for the empty string; embedded JSON is "ok" or       *)
(* "bad" (does not parse) plus the value it carries.                       *)
(***************************************************************************)
EXTENDS Naturals, Sequences, FiniteSets

\* ------------------------------------------------------------------ bounds
\* Requests the clients put on the Worker's topic.
MaxWorkerMsgs == 2
\* Messages the clients put on the connections' inbound topics.
MaxPeerMsgs == 2
\* Events the engine emits through the hooks.
MaxEvents == 1

\* Connection ids, room ids and the concurrent callers of HandleNext.
Pids == {"p1", "p2"}
Room == "room1"
Callers == {"w1", "w2"}
NoCaller == "none"

VARIABLES
    workerQ,     \* the Worker's topic: Seq of request envelopes
    inQ,         \* [Pids -> Seq of request envelopes], KeyTopicToPeer(pid)
    outQ,        \* [Pids -> Seq of replies], KeyTopicFromPeer(pid)
    mu,          \* worker.mu: the caller holding it, or NoCaller
    wpc,         \* [Callers -> position inside HandleNext]
    wreq,        \* [Callers -> the request being handled]
    wpeer,       \* [Callers -> index in peers of the object being joined]
    peers,       \* Seq of engine connection objects with their PeerChannel
    pending,     \* hook invocations the engine has started
    closeCalls,  \* Seq of pids: the Manager's CloseClient calls
    openRooms,   \* number of Manager.OpenRoomFromRequest calls
    crashed,     \* the process has panicked
    verdict,     \* what the Manager answered in the step just taken, if asked:
                 \* "created" / "createFailed" (CreateClient), "ok" /
                 \* "roomDataError" / "offerRejected" (the checks of an offer);
                 \* "error" when NextCommand returned an error in the step
    joinsSent,   \* the pids a client has sent a join request for
    mix,         \* the mix of messages the clients of this run send
    trickled,    \* [Pids -> the well-formed candidates put on the inbound topic]
    nW, nP, nEv   \* what the environment has produced so far

vars == <<workerQ, inQ, outQ, mu, wpc, wreq, wpeer, peers, pending,
          closeCalls, openRooms, crashed, verdict, joinsSent, mix,
          trickled, nW, nP, nEv>>

\* ---------------------------------------------------------------- messages
\* pb.NoirRequest as it comes off a queue.  wire = "bad": the bytes do not
\* decode (UnmarshalRequest returns an error); the other fields are then what
\* the decoder left in the destination.
Req(wire, action, cmd, id, rid, payload, body, data, sid) ==
    [wire |-> wire, action |-> action, cmd |-> cmd, id |-> id, rid |-> rid,
     payload |-> payload, body |-> body, data |-> data, sid |-> sid]

\* The zero value pb.NoirRequest{}.
EmptyRequest == Req("ok", <<>>, "none", "", 0, "none", "", 0, "")

ActJoin == <<"request", "signal", "join">>
ActOpenRoom == <<"request", "roomadmin", "openroom">>
SignalPrefix == <<"request", "signal">>
RoomAdminPrefix == <<"request", "roomadmin">>

\* strings.HasPrefix(action, "request.signal."): the prefix ends with a dot,
\* so a further segment (possibly empty) must follow the prefix's segments.
HasPrefix(a, p) == Len(a) > Len(p) /\ SubSeq(a, 1, Len(p)) = p

\* pb.NoirReply carrying a pb.SignalReply.
Reply(id, rid, payload, body, data) ==
    [id |-> id, rid |-> rid, payload |-> payload, body |-> body, data |-> data]

\* A well-formed join request for connection p; n is the request's serial
\* number, used as its requestId and as the content of its payload.
JoinRequest(p, n) == Req("ok", ActJoin, "signal", p, n, "join", "sdp", n, Room)

\* Well-formed messages of an established connection p.
KillRequest(p, n) ==
    Req("ok", <<"request", "signal", "kill">>, "signal", p, n, "kill", "", 0, "")
DescriptionRequest(p, n, type) ==
    Req("ok", <<"request", "signal", "description">>, "signal", p, n,
        "description", type, n, "")
TrickleRequest(p, n) ==
    Req("ok", <<"request", "signal", "trickle">>, "signal", p, n, "trickle", "ok", n, "")

\* m decodes to a Trickle payload whose candidate parses.
IsTrickle(m) ==
    m.wire = "ok" /\ m.cmd = "signal" /\ m.payload = "trickle" /\ m.body = "ok"

\* The clients of one run speak one of these mixes of messages (a bound on
\* the inputs: each mix keeps the state space small enough to enumerate).
Mixes == {"admin", "session", "junk"}

\* Requests a client may put on the Worker's topic.
\*   admin: every kind of action and payload the dispatch distinguishes,
\*          among them a join action without Join payload, one without any
\*          signal payload, and bytes that do not parse;
\*   session, junk: well-formed joins.
WorkerRequests(mx, n) ==
    IF mx = "admin"
    THEN {JoinRequest("p1", n),
          Req("ok", ActJoin, "signal", "p1", n, "kill", "", 0, ""),
          Req("ok", ActJoin, "roomadmin", "", 0, "none", "", 0, ""),
          Req("ok", <<"request", "signal", "trickle">>, "signal", "p1", n,
              "trickle", "ok", n, ""),
          Req("ok", ActOpenRoom, "roomadmin", "", 0, "none", "", 0, Room),
          Req("ok", <<"request", "roomadmin", "closeroom">>, "roomadmin", "", 0,
              "none", "", 0, Room),
          Req("ok", <<"request", "ping">>, "signal", "p1", n, "join", "sdp", n, Room),
          Req("bad", <<>>, "none", "", 0, "none", "", 0, "")}
    ELSE IF mx = "session" THEN {JoinRequest(p, n) : p \in Pids}
    ELSE {JoinRequest("p1", n)}

\* Messages a client may put on the inbound topic of connection p.
\*   session: the four well-formed payloads;
\*   junk: what the PeerChannel has no use for (malformed embedded JSON, a
\*         description that is neither offer nor answer, a Join payload, a
\*         room-admin command, bytes that do not decode and leave nothing or
\*         leave a Kill behind), and a trickle;
\*   admin: kill and offer.
PeerRequests(mx, p, n) ==
    IF mx = "session"
    THEN {KillRequest(p, n), DescriptionRequest(p, n, "answer"),
          DescriptionRequest(p, n, "offer"), TrickleRequest(p, n)}
    ELSE IF mx = "junk"
    THEN {Req("ok", <<"request", "signal", "description">>, "signal", p, n,
              "description", "bad", 0, ""),
          DescriptionRequest(p, n, "pranswer"),
          Req("ok", <<"request", "signal", "trickle">>, "signal", p, n,
              "trickle", "bad", 0, ""),
          JoinRequest(p, n),
          Req("ok", ActOpenRoom, "roomadmin", "", 0, "none", "", 0, Room),
          Req("bad", <<>>, "none", "", 0, "none", "", 0, ""),
          Req("bad", <<"request", "signal", "kill">>, "signal", p, n, "kill", "", 0, ""),
          TrickleRequest(p, n)}
    ELSE {KillRequest(p, n), DescriptionRequest(p, n, "offer")}

\* No Manager call decided the step and no error was returned in it.
NoVerdict == ""

\* -------------------------------------------------------------------- init
Init ==
    /\ workerQ = <<>>
    /\ inQ = [p \in Pids |-> <<>>]
    /\ outQ = [p \in Pids |-> <<>>]
    /\ mu = NoCaller
    /\ wpc = [c \in Callers |-> "idle"]
    /\ wreq = [c \in Callers |-> EmptyRequest]
    /\ wpeer = [c \in Callers |-> 0]
    /\ peers = <<>>
    /\ pending = {}
    /\ closeCalls = <<>>
    /\ openRooms = 0
    /\ crashed = FALSE
    /\ verdict = NoVerdict
    /\ joinsSent = {}
    /\ mix \in Mixes
    /\ trickled = [p \in Pids |-> <<>>]
    /\ nW = 0 /\ nP = 0 /\ nEv = 0

\* ------------------------------------------------------------- environment
\* Serial numbers of the next client messages: those of the Worker's topic
\* count from 1, those of the inbound topics follow them.
WorkerSerial == nW + 1
PeerSerial == MaxWorkerMsgs + nP + 1

\* Queue.Enqueue / EnqueueReply: FIFO append to a topic.
Enqueue(q, m) == Append(q, m)

\* A client puts a request on the Worker's topic.
ClientSendWorker ==
    /\ ~crashed
    /\ nW < MaxWorkerMsgs
    /\ \E m \in WorkerRequests(mix, WorkerSerial) :
        /\ workerQ' = Enqueue(workerQ, m)
        /\ joinsSent' = IF m.action = ActJoin /\ m.cmd = "signal"
                        THEN joinsSent \cup {m.id} ELSE joinsSent
        /\ verdict' = NoVerdict
    /\ nW' = nW + 1
    /\ UNCHANGED <<inQ, outQ, mu, wpc, wreq, wpeer, peers, pending, closeCalls,
                   openRooms, crashed, nP, nEv, mix, trickled>>

\* A client puts a message on the inbound topic of a connection it has asked
\* to join.
ClientSendPeer ==
    /\ ~crashed
    /\ nP < MaxPeerMsgs
    /\ \E p \in joinsSent :
         \E m \in PeerRequests(mix, p, PeerSerial) :
            /\ inQ' = [inQ EXCEPT ![p] = Enqueue(@, m)]
            /\ trickled' = IF IsTrickle(m)
                           THEN [trickled EXCEPT ![p] = Append(@, m.data)]
                           ELSE trickled
            /\ verdict' = NoVerdict
    /\ nP' = nP + 1
    /\ UNCHANGED <<workerQ, outQ, mu, wpc, wreq, wpeer, peers, pending,
                   closeCalls, openRooms, crashed, joinsSent, nW, nEv, mix>>

\* ------------------------------------------------------------------ worker
\* HandleRoomAdmin without the test of the action: every room-admin action
\* opens a room.
HandleRoomAdminAnyAction(c, request) ==
    /\ openRooms' = openRooms + 1
    /\ verdict' = NoVerdict
    /\ UNCHANGED <<wpc, wreq>>

\* HandleRoomAdmin: only request.roomadmin.openroom reaches the Manager.
HandleRoomAdmin(c, request) ==
    /\ IF request.action = ActOpenRoom
       THEN /\ openRooms' = openRooms + 1
            /\ verdict' = NoVerdict
       ELSE /\ openRooms' = openRooms
            /\ verdict' = NoVerdict
    /\ UNCHANGED <<wpc, wreq>>

\* HandleSignal: only request.signal.join is handled; HandleJoin starts by
\* waiting for worker.mu.
HandleSignal(c, request) ==
    IF request.action = ActJoin
    THEN /\ wpc' = [wpc EXCEPT ![c] = "lock"]
         /\ wreq' = [wreq EXCEPT ![c] = request]
         /\ verdict' = NoVerdict
         /\ UNCHANGED openRooms
    ELSE /\ verdict' = NoVerdict
         /\ UNCHANGED <<openRooms, wpc, wreq>>

\* Handle: prefix dispatch on the action string.
Handle(c, request) ==
    IF HasPrefix(request.action, SignalPrefix) THEN HandleSignal(c, request)
    ELSE IF HasPrefix(request.action, RoomAdminPrefix) THEN HandleRoomAdmin(c, request)
    ELSE /\ verdict' = NoVerdict
         /\ UNCHANGED <<openRooms, wpc, wreq>>

\* UnmarshalRequest(msg, &request): whether it returns an error, and what it
\* leaves in request.  Decoding fills the destination field by field, so
\* bytes that fail to decode may leave nothing or the fields decoded before
\* the failure.
UnmarshalFails(msg) == msg.wire = "bad"
UnmarshalRequest(msg) == msg

\* HandleNext, up to the dispatch: NextCommand pops and parses, Handle
\* dispatches.  A pop error or a parse error is returned to the caller
\* (HandleForever logs it and sleeps).
HandleNext(c) ==
    /\ ~crashed
    /\ wpc[c] = "idle"
    /\ \/ /\ verdict' = "error"
          /\ UNCHANGED <<workerQ, openRooms, wpc, wreq>>
       \/ /\ workerQ # <<>>
          /\ workerQ' = Tail(workerQ)
          /\ LET msg == Head(workerQ) IN
             IF UnmarshalFails(msg)
             THEN /\ verdict' = "error"
                  /\ UNCHANGED <<openRooms, wpc, wreq>>
             ELSE Handle(c, UnmarshalRequest(msg))
    /\ UNCHANGED <<inQ, outQ, mu, wpeer, peers, pending, closeCalls, crashed,
                   joinsSent, nW, nP, nEv, mix, trickled>>

\* NewPeer with the hooks set after peer.Join instead of before it: the
\* object goes into the join without hooks.
NewPeerWithoutHooks(pid) ==
    [pid |-> pid, sid |-> "", hooks |-> FALSE, closed |-> FALSE,
     calls |-> <<>>, chan |-> "none"]

\* NewPeer with the PeerChannel spawned before peer.Join and the Join-answer.
NewPeerAlreadyServed(pid) ==
    [pid |-> pid, sid |-> "", hooks |-> TRUE, closed |-> FALSE,
     calls |-> <<>>, chan |-> "Active"]

\* The engine connection object Manager.CreateClient returns, once HandleJoin
\* has set its three hooks (OnIceCandidate, OnICEConnectionStateChange,
\* OnOffer); no PeerChannel runs for it yet.
NewPeer(pid) ==
    [pid |-> pid, sid |-> "", hooks |-> TRUE, closed |-> FALSE,
     calls |-> <<>>, chan |-> "none"]

\* HandleJoin returns: the deferred Unlock releases worker.mu.
JoinReturn(c) ==
    /\ mu' = NoCaller
    /\ wpc' = [wpc EXCEPT ![c] = "idle"]
    /\ wreq' = [wreq EXCEPT ![c] = EmptyRequest]
    /\ wpeer' = [wpeer EXCEPT ![c] = 0]

\* JoinAbort with the Unlock written after the early return instead of
\* deferred: the error path leaves worker.mu held.
JoinAbortKeepsLock(c) ==
    /\ mu' = c
    /\ wpc' = [wpc EXCEPT ![c] = "idle"]
    /\ wreq' = [wreq EXCEPT ![c] = EmptyRequest]
    /\ wpeer' = [wpeer EXCEPT ![c] = 0]
    /\ verdict' = "createFailed"
    /\ UNCHANGED <<peers, crashed>>

\* HandleJoin when CreateClient fails: the error is returned.
JoinAbort(c) ==
    /\ JoinReturn(c)
    /\ verdict' = "createFailed"
    /\ UNCHANGED <<peers, crashed>>

\* A nil dereference inside HandleJoin: the goroutine panics, nothing
\* recovers, the process ends.
JoinPanic(c) ==
    /\ JoinReturn(c)
    /\ crashed' = TRUE
    /\ verdict' = NoVerdict

\* HandleJoin after CreateClient succeeded, up to the call of peer.Join:
\* signal.Id (line 128) and join.Description (line 185) are plain field
\* reads, so a nil signal or a nil join panics; the hooks are set in between.
JoinPrepare(c) ==
    LET signal == wreq[c] IN
    IF signal.cmd # "signal"
    THEN JoinPanic(c) /\ UNCHANGED peers
    ELSE /\ peers' = Append(peers, NewPeer(signal.id))
         /\ IF signal.payload # "join"
            THEN JoinPanic(c)
            ELSE /\ mu' = c
                 /\ wpc' = [wpc EXCEPT ![c] = "join"]
                 /\ wpeer' = [wpeer EXCEPT ![c] = Len(peers) + 1]
                 /\ verdict' = "created"
                 /\ UNCHANGED <<wreq, crashed>>

\* Manager.CreateClient(signal): the errors it may return (TRUE: none).
CreateClient(signal) == BOOLEAN

\* JoinLock without w.mu.Lock(): HandleJoin goes on whoever holds worker.mu.
JoinLockWithoutLock(c) ==
    /\ ~crashed
    /\ wpc[c] = "lock"
    /\ \E ok \in CreateClient(wreq[c]) :
         IF ok THEN JoinPrepare(c) ELSE JoinAbort(c)
    /\ UNCHANGED <<workerQ, inQ, outQ, pending, closeCalls, openRooms,
                   joinsSent, nW, nP, nEv, mix, trickled>>

\* HandleJoin, first part: Lock, then Manager.CreateClient, which fails or
\* succeeds.
JoinLock(c) ==
    /\ ~crashed
    /\ wpc[c] = "lock"
    /\ mu = NoCaller
    /\ \E ok \in CreateClient(wreq[c]) :
         IF ok THEN JoinPrepare(c) ELSE JoinAbort(c)
    /\ UNCHANGED <<workerQ, inQ, outQ, pending, closeCalls, openRooms,
                   joinsSent, nW, nP, nEv, mix, trickled>>

\* The Join-answer reply of lines 192-204; ok: peer.Join returned no error.
JoinReply(signal, ok) ==
    Reply(signal.id, signal.rid, "join", IF ok THEN "answer" ELSE "null",
          IF ok THEN signal.data ELSE 0)

\* JoinFinish that returns the error of peer.Join instead of discarding it:
\* no Join-answer and no PeerChannel when the engine join fails.
JoinFinishStopsOnEngineError(c) ==
    /\ ~crashed
    /\ wpc[c] = "join"
    /\ LET signal == wreq[c]
           k == wpeer[c]
       IN \E ok \in BOOLEAN :
            /\ outQ' = IF ok
                       THEN [outQ EXCEPT ![signal.id] = Enqueue(@, JoinReply(signal, ok))]
                       ELSE outQ
            /\ peers' = [peers EXCEPT
                   ![k].calls = Append(@, [op |-> "Join", arg |-> signal.data]),
                   ![k].sid = signal.sid,
                   ![k].chan = IF ok THEN "Active" ELSE "Closed"]
            /\ verdict' = IF ok THEN NoVerdict ELSE "error"
    /\ JoinReturn(c)
    /\ UNCHANGED <<workerQ, inQ, pending, closeCalls, openRooms, crashed,
                   joinsSent, nW, nP, nEv, mix, trickled>>

\* HandleJoin, second part: peer.Join returns (its error is discarded), the
\* Join-answer is enqueued on the outbound topic, the PeerChannel is spawned
\* and HandleJoin returns.
JoinFinish(c) ==
    /\ ~crashed
    /\ wpc[c] = "join"
    /\ LET signal == wreq[c]
           k == wpeer[c]
       IN /\ \E ok \in BOOLEAN :
               outQ' = [outQ EXCEPT ![signal.id] = Enqueue(@, JoinReply(signal, ok))]
          /\ peers' = [peers EXCEPT
                 ![k].calls = Append(@, [op |-> "Join", arg |-> signal.data]),
                 ![k].sid = signal.sid,
                 ![k].chan = "Active"]
          /\ verdict' = NoVerdict
    /\ JoinReturn(c)
    /\ UNCHANGED <<workerQ, inQ, pending, closeCalls, openRooms, crashed,
                   joinsSent, nW, nP, nEv, mix, trickled>>

\* ------------------------------------------------------------ peer channel
\* A call on the engine connection object peers[k].
Called(ps, k, op, arg) ==
    [ps EXCEPT ![k].calls = Append(@, [op |-> op, arg |-> arg])]

\* Manager.CloseClient(pid): the Manager closes the connection objects it
\* holds for pid.
CloseClient(ps, pid) ==
    [j \in DOMAIN ps |->
        IF ps[j].pid = pid THEN [ps[j] EXCEPT !.closed = TRUE] ELSE ps[j]]

\* PeerKill that closes the objects of every connection, not only those of
\* the PeerChannel's own pid.
PeerKillClosesEverything(k, signal) ==
    /\ closeCalls' = Append(closeCalls, peers[k].pid)
    /\ peers' = [j \in DOMAIN peers |->
                    IF j = k THEN [peers[j] EXCEPT !.closed = TRUE, !.chan = "Closed"]
                    ELSE [peers[j] EXCEPT !.closed = TRUE]]
    /\ outQ' = outQ
    /\ verdict' = NoVerdict

\* PeerKill with the return missing: the loop goes on after CloseClient.
PeerKillKeepsRunning(k, signal) ==
    /\ closeCalls' = Append(closeCalls, peers[k].pid)
    /\ peers' = CloseClient(peers, peers[k].pid)
    /\ outQ' = outQ
    /\ verdict' = NoVerdict

\* case *pb.SignalRequest_Kill: CloseClient, then return.
PeerKill(k, signal) ==
    /\ closeCalls' = Append(closeCalls, peers[k].pid)
    /\ peers' = [CloseClient(peers, peers[k].pid) EXCEPT ![k].chan = "Closed"]
    /\ outQ' = outQ
    /\ verdict' = NoVerdict

\* The Description reply of lines 259-267; ok: peer.Answer returned no error.
OfferReply(pid, signal, ok) ==
    Reply(pid, signal.rid, "description", IF ok THEN "answer" ELSE "null",
          IF ok THEN signal.data ELSE 0)

\* An offer that passed GetRemoteRoomData and ValidateOffer: peer.Answer is
\* called (its error is discarded) and the answer is enqueued.
PeerAnswerOffer(k, signal) ==
    /\ peers' = Called(peers, k, "Answer", signal.data)
    /\ \E ok \in BOOLEAN :
         outQ' = [outQ EXCEPT ![peers[k].pid] =
                      Enqueue(@, OfferReply(peers[k].pid, signal, ok))]
    /\ closeCalls' = closeCalls
    /\ verdict' = "ok"

\* A branch that only logs and goes on with the loop; v is the Manager's
\* answer that led there, if it was asked.
PeerSkip(k, signal, v) ==
    /\ verdict' = v
    /\ UNCHANGED <<peers, outQ, closeCalls>>

\* PeerSetRemote with the call on the engine object left out.
PeerSetRemoteSkipped(k, signal) ==
    /\ verdict' = NoVerdict
    /\ UNCHANGED <<peers, outQ, closeCalls>>

\* An answer: applied as the remote description.
PeerSetRemote(k, signal) ==
    /\ peers' = Called(peers, k, "SetRemoteDescription", signal.data)
    /\ verdict' = NoVerdict
    /\ UNCHANGED <<outQ, closeCalls>>

\* Manager.GetRemoteRoomData followed by Manager.ValidateOffer: the room
\* data cannot be fetched, the offer is rejected, or it passes.
OfferChecks == {"roomDataError", "offerRejected", "ok"}

\* PeerDescription with the continue after a rejected offer missing: the
\* rejected offer is answered all the same.
PeerDescriptionAnswersRejected(k, signal) ==
    IF signal.body = "bad" THEN PeerSkip(k, signal, NoVerdict)
    ELSE IF signal.body = "answer"
    THEN /\ peers' = Called(peers, k, "SetRemoteDescription", signal.data)
         /\ verdict' = NoVerdict
         /\ UNCHANGED <<outQ, closeCalls>>
    ELSE IF signal.body = "offer"
    THEN \E check \in OfferChecks :
           IF check = "roomDataError" THEN PeerSkip(k, signal, check)
           ELSE /\ peers' = Called(peers, k, "Answer", signal.data)
                /\ outQ' = [outQ EXCEPT ![peers[k].pid] =
                                Enqueue(@, OfferReply(peers[k].pid, signal, TRUE))]
                /\ closeCalls' = closeCalls
                /\ verdict' = check
    ELSE PeerSkip(k, signal, NoVerdict)

\* case *pb.SignalRequest_Description.
PeerDescription(k, signal) ==
    IF signal.body = "bad" THEN PeerSkip(k, signal, NoVerdict)
    ELSE IF signal.body = "answer" THEN PeerSetRemote(k, signal)
    ELSE IF signal.body = "offer"
    THEN \E check \in OfferChecks :
           IF check = "ok" THEN PeerAnswerOffer(k, signal)
           ELSE PeerSkip(k, signal, check)
    ELSE PeerSkip(k, signal, NoVerdict)

\* case *pb.SignalRequest_Trickle.
PeerTrickle(k, signal) ==
    IF signal.body = "bad" THEN PeerSkip(k, signal, NoVerdict)
    ELSE /\ peers' = Called(peers, k, "Trickle", signal.data)
         /\ verdict' = NoVerdict
         /\ UNCHANGED <<outQ, closeCalls>>

\* The two type switches of the loop body, on what UnmarshalRequest left in
\* request (the loop does not leave the iteration when decoding failed).
PeerSwitch(k, request) ==
    IF request.cmd = "signal"
    THEN IF request.payload = "kill" THEN PeerKill(k, request)
         ELSE IF request.payload = "description" THEN PeerDescription(k, request)
         ELSE IF request.payload = "trickle" THEN PeerTrickle(k, request)
         ELSE PeerSkip(k, request, NoVerdict)
    ELSE PeerSkip(k, request, NoVerdict)

\* PeerChannel with every iteration inside worker.mu: it waits while a
\* HandleJoin holds the lock.
PeerChannelUnderLock(k) ==
    /\ ~crashed
    /\ mu = NoCaller
    /\ peers[k].chan = "Active"
    /\ \/ /\ inQ' = inQ
          /\ PeerSkip(k, EmptyRequest, NoVerdict)
       \/ /\ inQ[peers[k].pid] # <<>>
          /\ inQ' = [inQ EXCEPT ![peers[k].pid] = Tail(@)]
          /\ PeerSwitch(k, UnmarshalRequest(Head(inQ[peers[k].pid])))
    /\ UNCHANGED <<workerQ, mu, wpc, wreq, wpeer, pending, openRooms,
                   crashed, joinsSent, nW, nP, nEv, mix, trickled>>

\* One iteration of the PeerChannel loop of peers[k]: BlockUntilNext on the
\* inbound topic, UnmarshalRequest, the switch.  After a pop error the
\* message is empty and decodes to the zero request.
PeerChannel(k) ==
    /\ ~crashed
    /\ peers[k].chan = "Active"
    /\ \/ /\ inQ' = inQ
          /\ PeerSkip(k, EmptyRequest, NoVerdict)
       \/ /\ inQ[peers[k].pid] # <<>>
          /\ inQ' = [inQ EXCEPT ![peers[k].pid] = Tail(@)]
          /\ PeerSwitch(k, UnmarshalRequest(Head(inQ[peers[k].pid])))
    /\ UNCHANGED <<workerQ, mu, wpc, wreq, wpeer, pending, openRooms,
                   crashed, joinsSent, nW, nP, nEv, mix, trickled>>

\* ------------------------------------------------------------- engine hooks
\* The events that reach OnIceCandidate and OnOffer.  The third hook,
\* OnICEConnectionStateChange, has an empty body: its invocations change
\* nothing and are left out.
EventKinds == {"ice", "offer"}

\* The engine starts a hook of an open connection object, in a context of
\* its own.
HookFire(k) ==
    /\ ~crashed
    /\ nEv < MaxEvents
    /\ peers[k].hooks /\ ~peers[k].closed
    /\ \E kind \in EventKinds :
         /\ pending' = pending \cup {[peer |-> k, kind |-> kind, data |-> nEv + 1]}
         /\ verdict' = NoVerdict
    /\ nEv' = nEv + 1
    /\ UNCHANGED <<workerQ, inQ, outQ, mu, wpc, wreq, wpeer, peers, closeCalls,
                   openRooms, crashed, joinsSent, nW, nP, mix, trickled>>

\* IceReply with a RequestId filled in from the candidate.
IceReplyWithRequestId(pid, e) == Reply(pid, e.data, "trickle", "candidate", e.data)

\* The Trickle reply of OnIceCandidate (lines 140-152).
IceReply(pid, e) == Reply(pid, 0, "trickle", "candidate", e.data)

\* The Description reply of OnOffer (lines 168-175).
OnOfferReply(pid, e) == Reply(pid, 0, "description", "offer", e.data)

\* A started hook runs to its end: OnIceCandidate and OnOffer enqueue their
\* reply on the outbound topic.
HookRun(e) ==
    /\ ~crashed
    /\ pending' = pending \ {e}
    /\ LET pid == peers[e.peer].pid IN
       outQ' = IF e.kind = "ice"
               THEN [outQ EXCEPT ![pid] = Enqueue(@, IceReply(pid, e))]
               ELSE [outQ EXCEPT ![pid] = Enqueue(@, OnOfferReply(pid, e))]
    /\ verdict' = NoVerdict
    /\ UNCHANGED <<workerQ, inQ, mu, wpc, wreq, wpeer, peers, closeCalls,
                   openRooms, crashed, joinsSent, nW, nP, nEv, mix, trickled>>

\* ----------------------------------------------------------- specification
Next ==
    \/ ClientSendWorker
    \/ ClientSendPeer
    \/ \E c \in Callers : HandleNext(c)
    \/ \E c \in Callers : JoinLock(c)
    \/ \E c \in Callers : JoinFinish(c)
    \/ \E k \in DOMAIN peers : PeerChannel(k)
    \/ \E k \in DOMAIN peers : HookFire(k)
    \/ \E e \in pending : HookRun(e)

Spec == Init /\ [][Next]_vars

\* The engine objects a run can create: one per request of the Worker's
\* topic at most.
MaxPeers == MaxWorkerMsgs

\* The scheduling the liveness claims assume: a queue that holds a message
\* ends up delivering it to a consumer that keeps asking (HandleForever, the
\* PeerChannel loop), every Manager and engine call returns (HandleJoin
\* gets the lock when it is free and runs to its end), and a hook the
\* engine started finishes.
FairSpec ==
    /\ Spec
    /\ \A c \in Callers :
          /\ WF_vars(HandleNext(c) /\ workerQ' # workerQ)
          /\ WF_vars(JoinLock(c))
          /\ WF_vars(JoinFinish(c))
    /\ \A k \in 1..MaxPeers :
          WF_vars(k \in DOMAIN peers /\ PeerChannel(k) /\ inQ' # inQ)
    /\ WF_vars(\E e \in pending : HookRun(e))

\* ------------------------------------------------------- reading a step
\* The engine connection objects created for connection p.
PeersOf(p) == {k \in DOMAIN peers : peers[k].pid = p}

\* The step is an iteration of a PeerChannel of p that took the head of p's
\* inbound topic.
Popped(p) == inQ[p] # <<>> /\ inQ'[p] = Tail(inQ[p])

\* The step enqueued exactly one reply, on the outbound topic of p.
OnlyAppended(p) ==
    /\ Len(outQ'[p]) = Len(outQ[p]) + 1
    /\ SubSeq(outQ'[p], 1, Len(outQ[p])) = outQ[p]
    /\ \A q \in Pids \ {p} : outQ'[q] = outQ[q]

\* The reply at the tail of a topic.
Last(q) == q[Len(q)]

\* The replies of a topic with the given payload and requestId.
Replies(q, payload, rid) ==
    {i \in DOMAIN q : q[i].payload = payload /\ q[i].rid = rid}

\* The step made exactly one call, op(arg), on an engine object of p whose
\* PeerChannel is Active, and changed no other engine object.
OneCall(p, op, arg) ==
    \E k \in PeersOf(p) :
        /\ peers[k].chan = "Active"
        /\ peers' = Called(peers, k, op, arg)

\* ------------------------------------------------------------------- C1
\* C1: a step that ends HandleJoin after CreateClient succeeded (that is,
\* not by the early return on its error) leaves exactly one Join-answer
\* reply with the request's requestId on the outbound topic of the
\* request's connectionId, and that reply carries the connectionId.
C1_CreatedJoinIsAnsweredOnce ==
    [][\A c \in Callers :
          (wpc[c] \in {"lock", "join"} /\ wpc'[c] = "idle"
             /\ verdict' # "createFailed")
          => /\ wreq[c].id \in Pids
             /\ Cardinality(Replies(outQ'[wreq[c].id], "join", wreq[c].rid)) = 1
             /\ \A i \in Replies(outQ'[wreq[c].id], "join", wreq[c].rid) :
                    outQ'[wreq[c].id][i].id = wreq[c].id]_vars

\* ------------------------------------------------------------------- C2
\* C2: the step in which CreateClient fails ends HandleJoin with no reply
\* enqueued on any topic, no engine object touched (no hook set, no Join
\* call, no PeerChannel), no hook run, worker.mu free and the process alive;
\* the other callers are where they were.
C2_FailedCreateAborts ==
    [][\A c \in Callers :
          (wpc[c] = "lock" /\ wpc'[c] = "idle" /\ verdict' = "createFailed")
          => /\ outQ' = outQ
             /\ peers' = peers
             /\ pending' = pending
             /\ mu' = NoCaller
             /\ ~crashed'
             /\ \A d \in Callers \ {c} : wpc'[d] = wpc[d]]_vars

\* A join has just been aborted while another caller waits for the lock it
\* left free.
C2_Witness ==
    /\ verdict = "createFailed"
    /\ mu = NoCaller
    /\ peers = <<>>
    /\ \E c \in Callers : wpc[c] = "lock"

\* ------------------------------------------------------------------- C3
\* The message an iteration took from p's inbound topic carries a Kill.
KillAt(p) ==
    /\ Popped(p)
    /\ Head(inQ[p]).cmd = "signal"
    /\ Head(inQ[p]).payload = "kill"

\* C3: the iteration that receives a Kill makes one CloseClient call for its
\* pid, enqueues nothing, makes no call on an engine object and takes one
\* Active PeerChannel of that pid to Closed; CloseClient is called in no
\* other step; a Closed PeerChannel stays Closed, makes no further call on
\* its engine object, and a topic is only consumed by an Active PeerChannel.
C3_KillClosesOnce ==
    [][/\ \A p \in Pids :
            KillAt(p) =>
              /\ closeCalls' = Append(closeCalls, p)
              /\ outQ' = outQ
              /\ \E k \in PeersOf(p) :
                    /\ peers[k].chan = "Active"
                    /\ peers'[k].chan = "Closed"
                    /\ \A j \in DOMAIN peers \ {k} : peers'[j].chan = peers[j].chan
              /\ \A j \in DOMAIN peers : peers'[j].calls = peers[j].calls
       /\ (closeCalls' # closeCalls => \E p \in Pids : KillAt(p))
       /\ \A k \in DOMAIN peers :
            peers[k].chan = "Closed" =>
              /\ peers'[k].chan = "Closed"
              /\ peers'[k].calls = peers[k].calls
       /\ \A p \in Pids :
            Popped(p) => \E k \in PeersOf(p) : peers[k].chan = "Active"]_vars

\* A PeerChannel has closed on a Kill, its connection was closed once, and a
\* message that came after the Kill is left on the inbound topic.
C3_Witness ==
    \E k \in DOMAIN peers :
        /\ peers[k].chan = "Closed"
        /\ closeCalls = <<peers[k].pid>>
        /\ inQ[peers[k].pid] # <<>>

\* ------------------------------------------------------------------- C4
\* C4: once a PeerChannel of connection p has processed a Kill, no step
\* enqueues a reply on the outbound topic of p.
C4_NoReplyAfterKill ==
    [][\A p \in Pids :
          (\E k \in PeersOf(p) : peers[k].chan = "Closed")
          => outQ'[p] = outQ[p]]_vars

\* ------------------------------------------------------------------- C5
\* The message an iteration took from p's inbound topic carries a
\* Description whose JSON parses to the given type.
DescriptionAt(p, type) ==
    /\ Popped(p)
    /\ Head(inQ[p]).cmd = "signal"
    /\ Head(inQ[p]).payload = "description"
    /\ Head(inQ[p]).body = type

\* C5: the iteration that receives an offer asks the Manager to check it.
\* If the room data cannot be fetched or the offer is rejected, nothing is
\* enqueued and no engine object is touched (no Answer call, every
\* PeerChannel where it was).  If the offer passes, exactly one Answer call
\* is made, for that offer, on an engine object of the connection, and
\* exactly one reply is enqueued, on the connection's outbound topic: a
\* Description reply with the connection's id and the request's requestId.
\* No CloseClient call is made either way.
C5_OfferValidatedThenAnswered ==
    [][\A p \in Pids :
          DescriptionAt(p, "offer") =>
            /\ verdict' \in OfferChecks
            /\ closeCalls' = closeCalls
            /\ IF verdict' = "ok"
               THEN /\ OneCall(p, "Answer", Head(inQ[p]).data)
                    /\ OnlyAppended(p)
                    /\ Last(outQ'[p]).payload = "description"
                    /\ Last(outQ'[p]).id = p
                    /\ Last(outQ'[p]).rid = Head(inQ[p]).rid
               ELSE /\ peers' = peers
                    /\ outQ' = outQ]_vars

\* An offer has just passed the checks: its answer, carrying the offer's
\* requestId, follows the Join-answer on the outbound topic, and the engine
\* object has had its Join and its Answer call.
C5_Witness ==
    /\ verdict = "ok"
    /\ \E p \in Pids :
         /\ outQ[p] # <<>>
         /\ Last(outQ[p]).payload = "description"
         /\ Last(outQ[p]).rid = MaxWorkerMsgs + MaxPeerMsgs
         /\ Cardinality(DOMAIN outQ[p]) = 2
         /\ \E k \in PeersOf(p) : Len(peers[k].calls) = 2

\* ------------------------------------------------------------------- C6
\* C6: the iteration that receives an answer makes exactly one
\* SetRemoteDescription call, with that answer, on an engine object of the
\* connection, makes no other call (no Answer, no CloseClient) and enqueues
\* nothing.
C6_AnswerSetsRemoteDescription ==
    [][\A p \in Pids :
          DescriptionAt(p, "answer") =>
            /\ OneCall(p, "SetRemoteDescription", Head(inQ[p]).data)
            /\ outQ' = outQ
            /\ closeCalls' = closeCalls]_vars

\* An engine object has been given a remote description and the only reply
\* on its connection's outbound topic is the Join-answer.
C6_Witness ==
    \E k \in DOMAIN peers :
        /\ \E i \in DOMAIN peers[k].calls :
              peers[k].calls[i].op = "SetRemoteDescription"
        /\ Len(outQ[peers[k].pid]) = 1
        /\ inQ[peers[k].pid] = <<>>

\* ------------------------------------------------------------------- C7
\* The candidates forwarded to engine object k, in the order of the calls.
TrickleCalls(k) == SelectSeq(peers[k].calls, LAMBDA c : c.op = "Trickle")

\* Candidate d is still on the inbound topic of p.
Queued(p, d) ==
    \E i \in DOMAIN inQ[p] : IsTrickle(inQ[p][i]) /\ inQ[p][i].data = d

\* Candidate d went to the engine object of an earlier connection of p,
\* one whose PeerChannel has since closed.
WentToClosed(p, d) ==
    \E j \in PeersOf(p) :
        /\ peers[j].chan = "Closed"
        /\ \E i \in DOMAIN TrickleCalls(j) : TrickleCalls(j)[i].arg = d

\* C7: for every established connection (an engine object of p whose
\* PeerChannel is Active), every well-formed candidate put on the inbound
\* topic of p that is no longer queued there, and did not go to an earlier,
\* closed connection of p, has been forwarded to that engine object by
\* exactly one Trickle call, and the calls are in the order in which the
\* candidates were enqueued.
C7_TricklesForwardedInOrder ==
    \A p \in Pids : \A k \in PeersOf(p) :
        peers[k].chan = "Active" =>
          /\ \A n \in DOMAIN trickled[p] :
                LET d == trickled[p][n] IN
                (~Queued(p, d) /\ ~WentToClosed(p, d))
                => Cardinality({i \in DOMAIN TrickleCalls(k) :
                                   TrickleCalls(k)[i].arg = d}) = 1
          /\ \A i, j \in DOMAIN TrickleCalls(k) :
                i < j => TrickleCalls(k)[i].arg < TrickleCalls(k)[j].arg

\* ------------------------------------------------------------------- C8
\* What the PeerChannel has no use for: bytes that do not decode, a command
\* that is not a signal, a signal payload other than Kill, Description and
\* Trickle, a Description or Trickle whose embedded JSON does not parse.
Unusable(m) ==
    \/ UnmarshalFails(m)
    \/ m.cmd # "signal"
    \/ m.payload \notin {"kill", "description", "trickle"}
    \/ (m.payload \in {"description", "trickle"} /\ m.body = "bad")

\* C8: an iteration of a PeerChannel that takes an unusable message from the
\* inbound topic enqueues nothing, makes no call on an engine object, makes
\* no CloseClient call and leaves every PeerChannel Active that was.
C8_UnusableInputIsDropped ==
    [][\A p \in Pids :
          (Popped(p) /\ Unusable(Head(inQ[p])))
          => /\ peers' = peers
             /\ outQ' = outQ
             /\ closeCalls' = closeCalls]_vars

\* ------------------------------------------------------------------- C9
\* The PeerChannels of connection p that are consuming its inbound topic.
Live(p) == {k \in PeersOf(p) : peers[k].chan = "Active"}

\* C9: every connectionId has at most one live PeerChannel.
C9_OneLiveChannel == \A p \in Pids : Cardinality(Live(p)) <= 1

\* ------------------------------------------------------------------ C10
\* The step ends the HandleJoin of a join request for p, and r is its
\* Join-answer.
AnswersJoin(p, r) ==
    \E c \in Callers :
        /\ wpc[c] = "join" /\ wpc'[c] = "idle"
        /\ wreq[c].id = p
        /\ r.payload = "join"
        /\ r.rid = wreq[c].rid

\* The step is the iteration in which an offer of p passed the checks, and r
\* is the reply to it.
AnswersOffer(p, r) ==
    /\ DescriptionAt(p, "offer")
    /\ verdict' = "ok"
    /\ r.payload = "description"
    /\ r.body # "offer"
    /\ r.rid = Head(inQ[p]).rid

\* The step ends a hook the engine started on an object of p, and r is the
\* hook's reply: a Trickle for a candidate, a Description for an offer of
\* the engine.
AnswersEvent(p, r) ==
    \E e \in pending \ pending' :
        /\ peers[e.peer].pid = p
        /\ \/ e.kind = "ice" /\ r.payload = "trickle"
           \/ e.kind = "offer" /\ r.payload = "description" /\ r.body = "offer"

\* C10: a step changes an outbound topic only by enqueuing one reply r, on
\* one topic p, with r's id p.  If r has a requestId, r is the Join-answer
\* of the join request whose HandleJoin ends in the step or the reply to the
\* offer validated in the step, with that request's requestId, and no other
\* reply of the topic has the same requestId.  If r comes from a hook, its
\* requestId is empty.
C10_RepliesCorrelate ==
    [][\A p \in Pids :
          outQ'[p] # outQ[p] =>
            /\ OnlyAppended(p)
            /\ LET r == Last(outQ'[p]) IN
               /\ r.id = p
               /\ AnswersJoin(p, r) \/ AnswersOffer(p, r) \/ AnswersEvent(p, r)
               /\ r.rid # 0 =>
                    /\ AnswersJoin(p, r) \/ AnswersOffer(p, r)
                    /\ \A i \in DOMAIN outQ[p] : outQ[p][i].rid # r.rid
               /\ AnswersEvent(p, r) => r.rid = 0]_vars

\* An outbound topic holds a Join-answer and the answer to an offer, each
\* with the requestId of its request, and a hook's reply without one.
C10_Witness ==
    \E p \in Pids :
        /\ Len(outQ[p]) = 3
        /\ \E i \in DOMAIN outQ[p] : outQ[p][i].payload = "join" /\ outQ[p][i].rid # 0
        /\ \E i \in DOMAIN outQ[p] :
              /\ outQ[p][i].payload = "description"
              /\ outQ[p][i].body = "answer"
              /\ outQ[p][i].rid > MaxWorkerMsgs
        /\ \E i \in DOMAIN outQ[p] : outQ[p][i].rid = 0

\* ------------------------------------------------------------------ C11
\* The step is a HandleNext that took the head of the Worker's topic.
WorkerPopped == workerQ # <<>> /\ workerQ' = Tail(workerQ)

\* C11: a request that decodes and is popped from the Worker's topic starts
\* the join procedure of the caller when its action is exactly
\* request.signal.join, makes one OpenRoomFromRequest call when its action
\* is exactly request.roomadmin.openroom, and otherwise (another
\* request.signal.* or request.roomadmin.* action, or neither prefix) is
\* consumed without an error and without any effect: no caller enters a
\* join, no Manager call is made, and the connections, the topics and the
\* PeerChannels are what they were.
C11_OnlyJoinAndOpenRoomHaveEffect ==
    [][(WorkerPopped /\ ~UnmarshalFails(Head(workerQ))) =>
         LET request == Head(workerQ) IN
         /\ <<inQ, outQ, peers, pending, closeCalls, mu, crashed>>' =
                <<inQ, outQ, peers, pending, closeCalls, mu, crashed>>
         /\ verdict' = NoVerdict
         /\ IF request.action = ActJoin
            THEN /\ \E c \in Callers :
                       /\ wpc[c] = "idle" /\ wpc'[c] = "lock"
                       /\ wreq'[c] = request
                       /\ \A d \in Callers \ {c} : wpc'[d] = wpc[d]
                 /\ openRooms' = openRooms
            ELSE IF request.action = ActOpenRoom
            THEN openRooms' = openRooms + 1 /\ wpc' = wpc /\ wreq' = wreq
            ELSE openRooms' = openRooms /\ wpc' = wpc /\ wreq' = wreq]_vars

\* The Worker has consumed two requests whose actions it ignores (the
\* clients sent no join and no room was opened) and its topic is empty.
C11_Witness ==
    /\ nW = MaxWorkerMsgs
    /\ workerQ = <<>>
    /\ joinsSent = {}
    /\ openRooms = 0
    /\ verdict = NoVerdict
    /\ ~crashed
    /\ \A c \in Callers : wpc[c] = "idle"

\* ------------------------------------------------------------------ C12
\* C12: neither the Worker loop nor a PeerChannel ever panics.
C12_NothingIsFatal == ~crashed

\* ------------------------------------------------------------------ C13
\* The callers whose HandleJoin is between CreateClient and its return.
InJoin == {c \in Callers : wpc[c] = "join"}

\* C13: at most one caller is inside HandleJoin's critical section, that
\* caller holds worker.mu, and nobody else does.  A connection object is
\* created only by a caller that found worker.mu free and took it; the
\* Join-answer is enqueued and the PeerChannel spawned by the caller that
\* holds it, in the step that releases it; the step in which CreateClient
\* fails leaves it free.
C13_JoinMutualExclusion ==
    /\ [](/\ Cardinality(InJoin) <= 1
          /\ \A c \in InJoin : mu = c
          /\ mu # NoCaller => mu \in InJoin)
    /\ [][/\ Len(peers') > Len(peers) =>
               /\ mu = NoCaller
               /\ \E c \in Callers :
                     /\ wpc[c] = "lock"
                     /\ \/ wpc'[c] = "join" /\ mu' = c
                        \/ wpc'[c] = "idle" /\ mu' = NoCaller /\ crashed'
          /\ \A c \in Callers :
               (wpc[c] = "join" /\ wpc'[c] = "idle") =>
                 /\ mu = c /\ mu' = NoCaller
                 /\ OnlyAppended(wreq[c].id)
                 /\ peers[wpeer[c]].chan = "none"
                 /\ peers'[wpeer[c]].chan = "Active"
          /\ \A c \in Callers :
               (wpc[c] = "lock" /\ wpc'[c] = "idle") => mu' = NoCaller]_vars

\* A caller is inside the critical section while the other one, with a join
\* request of its own, waits for worker.mu.
C13_Witness ==
    \E c, d \in Callers :
        /\ wpc[c] = "join" /\ mu = c
        /\ wpc[d] = "lock"

\* ------------------------------------------------------------------ C14
\* C14: whoever holds worker.mu, a PeerChannel that is Active and has a
\* message on its inbound topic can take it and process it, and a hook the
\* engine has started can run to its reply; and neither kind of step takes
\* or releases worker.mu.
C14_SignalingNeverWaitsForJoinLock ==
    /\ [](~crashed =>
            /\ \A k \in DOMAIN peers :
                 (peers[k].chan = "Active" /\ inQ[peers[k].pid] # <<>>)
                 => ENABLED (PeerChannel(k) /\ inQ' # inQ)
            /\ \A e \in pending : ENABLED HookRun(e))
    /\ [][((\E p \in Pids : Popped(p)) \/ pending' # pending) => mu' = mu]_vars

\* A join is in progress (its caller holds worker.mu) while an established
\* connection has a message waiting on its inbound topic and a started hook
\* has yet to enqueue its reply.
C14_Witness ==
    /\ mu # NoCaller
    /\ ~crashed
    /\ pending # {}
    /\ \E k \in DOMAIN peers :
          peers[k].chan = "Active" /\ inQ[peers[k].pid] # <<>>

\* ------------------------------------------------------------------ C15
\* The step ends hook invocation e with the reply that corresponds to it.
HookAnswered(e) ==
    LET p == peers[e.peer].pid IN
    /\ OnlyAppended(p)
    /\ Last(outQ'[p]).id = p
    /\ Last(outQ'[p]).data = e.data
    /\ \/ e.kind = "ice" /\ Last(outQ'[p]).payload = "trickle"
       \/ /\ e.kind = "offer"
          /\ Last(outQ'[p]).payload = "description"
          /\ Last(outQ'[p]).body = "offer"

\* C15: every engine object HandleJoin is about to call, is calling or has
\* called peer.Join on has its hooks set; so from before the join call until
\* the object is closed on a Kill the engine can start a hook for a
\* candidate or an offer it produces, and each started hook ends by
\* enqueuing the corresponding reply on the connection's outbound topic.
C15_HooksSetBeforeJoin ==
    /\ [](\A k \in DOMAIN peers :
            /\ peers[k].hooks
            /\ (~crashed /\ ~peers[k].closed /\ nEv < MaxEvents)
               => ENABLED HookFire(k))
    /\ [][\A e \in pending : e \notin pending' => HookAnswered(e)]_vars

\* The engine produced a candidate or an offer while peer.Join was running:
\* its reply is on the outbound topic ahead of the Join-answer.
C15_Witness ==
    \E p \in Pids :
        /\ Cardinality(PeersOf(p)) = 1
        /\ Len(outQ[p]) = 2
        /\ outQ[p][1].rid = 0
        /\ outQ[p][1].payload \in {"trickle", "description"}
        /\ outQ[p][2].payload = "join"

\* ------------------------------------------------------------------ C16
\* The number of commands the Worker has popped from its topic.
WorkerPops == nW - Len(workerQ)

\* C16: under FairSpec, the j-th command put on the Worker's topic is
\* eventually popped, whatever came before it; and the topic changes only
\* by a client appending a command or by a HandleNext taking its head, so
\* that a popped command is never dispatched again.
C16_EveryCommandIsDispatched ==
    /\ \A j \in 1..MaxWorkerMsgs : (nW >= j) ~> (WorkerPops >= j)
    /\ [][workerQ' # workerQ =>
            \/ WorkerPopped
            \/ /\ Len(workerQ') = Len(workerQ) + 1
               /\ SubSeq(workerQ', 1, Len(workerQ)) = workerQ]_vars

\* ------------------------------------------------------------------ C17
\* A Kill waits on the inbound topic of p.
KillQueued(p) ==
    \E i \in DOMAIN inQ[p] :
        /\ ~UnmarshalFails(inQ[p][i])
        /\ inQ[p][i].cmd = "signal"
        /\ inQ[p][i].payload = "kill"

\* C17: under FairSpec, a Kill that waits on the inbound topic of a
\* connection with a live PeerChannel leads to that connectionId having no
\* live PeerChannel; and a PeerChannel leaves Active only in the iteration
\* that receives a Kill.
C17_KillTerminates ==
    /\ \A p \in Pids : (KillQueued(p) /\ Live(p) # {}) ~> (Live(p) = {})
    /\ [][\A k \in DOMAIN peers :
            (peers[k].chan = "Active" /\ peers'[k].chan # "Active")
            => KillAt(peers[k].pid)]_vars

\* ------------------------------------------------------------------ C18
\* C18: a PeerChannel starts in the very step that enqueues the Join-answer
\* of its connection; and on the outbound topic of a connectionId that has
\* been joined once, every Description reply with a requestId comes after
\* the Join-answer.
C18_PeerChannelFollowsJoinAnswer ==
    /\ [](\A p \in Pids :
            Cardinality(PeersOf(p)) = 1 =>
              \A i \in DOMAIN outQ[p] :
                 (outQ[p][i].payload = "description" /\ outQ[p][i].rid # 0)
                 => \E j \in 1..(i - 1) : outQ[p][j].payload = "join")
    /\ [][\A k \in DOMAIN peers :
            (peers[k].chan = "none" /\ peers'[k].chan # "none")
            => /\ peers'[k].chan = "Active"
               /\ OnlyAppended(peers[k].pid)
               /\ Last(outQ'[peers[k].pid]).payload = "join"]_vars

\* A connectionId joined once has its Join-answer followed by the answer to
\* an offer, on an outbound topic that holds nothing else.
C18_Witness ==
    \E p \in Pids :
        /\ Cardinality(PeersOf(p)) = 1
        /\ Len(outQ[p]) = 2
        /\ outQ[p][1].payload = "join"
        /\ outQ[p][2].payload = "description"
        /\ outQ[p][2].rid # 0

\* ------------------------------------------------------------------ C19
\* The bodies a reply to a client request may have: the engine's answer, or
\* the marshalled zero value when the engine call returned an error.
AnswerBodies == {"answer", "null"}

\* C19: whatever peer.Join returns, the step in which it returns enqueues
\* one Join-answer with the request's requestId (its body the answer or,
\* after an error, null), starts the PeerChannel of the object, releases
\* worker.mu and returns no error; whatever peer.Answer returns for an offer
\* that passed the checks, one Description reply with the offer's requestId
\* is enqueued and the PeerChannel stays Active.
C19_EngineErrorsAreDiscarded ==
    [][/\ \A c \in Callers :
            (wpc[c] = "join" /\ wpc'[c] = "idle") =>
              /\ OnlyAppended(wreq[c].id)
              /\ Last(outQ'[wreq[c].id]).payload = "join"
              /\ Last(outQ'[wreq[c].id]).rid = wreq[c].rid
              /\ Last(outQ'[wreq[c].id]).body \in AnswerBodies
              /\ peers'[wpeer[c]].chan = "Active"
              /\ verdict' = NoVerdict
              /\ mu' = NoCaller
              /\ ~crashed'
       /\ \A p \in Pids :
            (DescriptionAt(p, "offer") /\ verdict' = "ok") =>
              /\ OnlyAppended(p)
              /\ Last(outQ'[p]).payload = "description"
              /\ Last(outQ'[p]).rid = Head(inQ[p]).rid
              /\ Last(outQ'[p]).body \in AnswerBodies
              /\ \A k \in DOMAIN peers : peers'[k].chan = peers[k].chan]_vars

\* The engine failed the join and failed the answer to an offer: both
\* replies are on the outbound topic all the same, and the PeerChannel that
\* was spawned after the failed join is Active.
C19_Witness ==
    \E k \in DOMAIN peers :
        LET p == peers[k].pid IN
        /\ peers[k].chan = "Active"
        /\ Cardinality(PeersOf(p)) = 1
        /\ Len(outQ[p]) = 2
        /\ outQ[p][1].payload = "join" /\ outQ[p][1].body = "null"
        /\ outQ[p][2].payload = "description" /\ outQ[p][2].body = "null"

\* ------------------------------------------------------------------ C20
\* C20: a HandleNext that takes a command from the Worker's topic touches no
\* inbound topic.  An iteration that takes a message from the inbound topic
\* of p is made by a PeerChannel of p and touches neither the Worker's topic
\* nor any other connection: their inbound and outbound topics and their
\* engine objects are what they were, and the only CloseClient call it can
\* make is for p.  Every reply a step enqueues on the outbound topic of p
\* has connectionId p, and a hook that ends enqueues on the topic of the
\* connection its object belongs to and on no other.
C20_ConnectionsAreIsolated ==
    [][/\ WorkerPopped => inQ' = inQ
       /\ \A p \in Pids :
            Popped(p) =>
              /\ \E k \in PeersOf(p) : peers[k].chan = "Active"
              /\ workerQ' = workerQ
              /\ closeCalls' \in {closeCalls, Append(closeCalls, p)}
              /\ \A q \in Pids \ {p} :
                    /\ inQ'[q] = inQ[q]
                    /\ outQ'[q] = outQ[q]
                    /\ \A k \in PeersOf(q) : peers'[k] = peers[k]
       /\ \A p \in Pids :
            outQ'[p] # outQ[p] => Last(outQ'[p]).id = p
       /\ \A e \in pending :
            e \notin pending' =>
              \A q \in Pids \ {peers[e.peer].pid} : outQ'[q] = outQ[q]]_vars

\* Two connections are established; one has had a message processed (its
\* engine object got a call beyond Join) while the other, with a message
\* waiting on its own inbound topic, has seen nothing but its join.
C20_Witness ==
    \E j, k \in DOMAIN peers :
        /\ peers[j].pid # peers[k].pid
        /\ peers[j].chan = "Active" /\ peers[k].chan = "Active"
        /\ Len(peers[j].calls) = 2
        /\ Len(peers[k].calls) = 1
        /\ inQ[peers[k].pid] # <<>>
        /\ Len(outQ[peers[k].pid]) = 1
        /\ closeCalls = <<>>

====
